---- MODULE Spec2Model ----
(***************************************************************************)
(* SolDraft (src/src/App.tsx): the state of the App component, its event   *)
(* handlers, the outstanding generateContent calls and the pending         *)
(* setTimeout callbacks, as a state machine.                               *)
(*                                                                         *)
(* Text.  A JavaScript string is modelled as a sequence of pieces.  A      *)
(* piece is either one character the user typed ("H", " ", "P") or one     *)
(* literal of the program text, kept whole and verbatim (a tone fragment,  *)
(* a stretch of the prompt template).  Concatenation is \o, '' is << >>.   *)
(* A draft may hold program literals as pieces: the user pasted that text. *)
(*                                                                         *)
(* null / undefined.  An optional value is a set with at most one member:  *)
(* None is null or undefined, Some(t) is the value t.                      *)
(***************************************************************************)
EXTENDS Integers, Sequences, FiniteSets, TLC

None == {}
Some(t) == {t}
Get(o) == CHOOSE t \in o : TRUE

(***************************************************************************)
(* Bounds of the model.                                                    *)
(***************************************************************************)
\* generateContent calls that may be outstanding at once before the model
\* stops accepting more (the code has no such limit)
MaxInflight == 2
\* setTimeout callbacks that may be pending at once before the model stops
\* accepting more copy clicks (the code has no such limit)
MaxTimers == 2

(***************************************************************************)
(* String.prototype.trim, toLowerCase, Array.prototype.includes, join.     *)
(***************************************************************************)
WhiteSpace == {" ", "\t", "\n", "\r"}

UpperCase == <<"A", "B", "C", "D", "E", "F", "G", "H", "I", "J", "K", "L", "M",
               "N", "O", "P", "Q", "R", "S", "T", "U", "V", "W", "X", "Y", "Z">>
LowerCase == <<"a", "b", "c", "d", "e", "f", "g", "h", "i", "j", "k", "l", "m",
               "n", "o", "p", "q", "r", "s", "t", "u", "v", "w", "x", "y", "z">>

RECURSIVE trimStart(_)
trimStart(s) ==
    IF s # << >> /\ Head(s) \in WhiteSpace THEN trimStart(Tail(s)) ELSE s

RECURSIVE trimEnd(_)
trimEnd(s) ==
    IF s # << >> /\ s[Len(s)] \in WhiteSpace
    THEN trimEnd(SubSeq(s, 1, Len(s) - 1))
    ELSE s

trim(s) == trimEnd(trimStart(s))

toLowerCaseChar(c) ==
    IF \E k \in 1..Len(UpperCase) : UpperCase[k] = c
    THEN LowerCase[CHOOSE k \in 1..Len(UpperCase) : UpperCase[k] = c]
    ELSE c

toLowerCase(s) == [i \in 1..Len(s) |-> toLowerCaseChar(s[i])]

includes(list, w) == \E i \in 1..Len(list) : list[i] = w

RECURSIVE join(_, _)
join(list, sep) ==
    IF list = << >> THEN << >>
    ELSE IF Len(list) = 1 THEN list[1]
    ELSE list[1] \o sep \o join(Tail(list), sep)

\* JavaScript truthiness of a string: '' is falsy
Truthy(s) == s # << >>

(***************************************************************************)
(* The fixed texts of the program.                                         *)
(***************************************************************************)
Tones == {"authoritative", "professional", "casual", "fun"}
Actions == {"rephrase", "refine", "improve"}

tonePrompt ==
    [authoritative |-> <<"Make it authoritative, decisive, and strategic. Focus on outcomes, clarity, and leadership. Perfect for high-stakes PM communication.">>,
     professional  |-> <<"Make it professional, clear, and business-appropriate. Focus on stakeholder alignment and clarity.">>,
     casual        |-> <<"Make it casual and friendly, like a message to a direct team or close collaborator. Use a warm, collaborative tone.">>,
     fun           |-> <<"Make it fun and full of personality! Use expressive language while remaining effective.">>]

actionPrompt ==
    [rephrase |-> <<"Rephrase the following draft to improve flow and wording while keeping the core message identical.">>,
     refine   |-> <<"Refine the following draft to improve clarity, tone, and professional impact.">>,
     improve  |-> <<"Substantially improve the following draft by adding structure, better vocabulary, and strategic depth.">>]

AvoidLead == <<"CRITICAL: Do NOT use any of the following words or phrases in your response: ">>
AvoidSep == <<", ">>
AvoidEnd == <<".">>

\* the stretches of the prompt template between its ${...} holes
TplTask == <<"\n        You are SolDraft, a senior Product Management communications coach.\n        Your task is to ">>
TplTone == <<" the following email draft for a Product Manager.\n        \n        Context: The user is a Product Manager communicating with stakeholders, engineering teams, or leadership.\n        Tone Requirement: ">>
TplAction == <<"\n        Action Requirement: ">>
TplAvoid == <<"\n        ">>
TplDraft == <<"\n        \n        CRITICAL: Keep the response CONCISE and to the point. Product Managers value brevity. Do not exceed the length of the original draft unless absolutely necessary for clarity.\n        \n        Original Draft:\n        \"\"\"\n        ">>
TplOnly == <<"\n        \"\"\"\n        \n        Please provide only the ">>
TplEnd == <<"d email text. Focus on PM-specific needs: clarity of requirements, alignment on goals, and decisive action. Do not include subject lines unless specifically asked. Do not include meta-commentary.\n      ">>

NoResponse == <<"No response generated.">>
Apology == <<"The sun went behind a cloud for a moment. Please try again!">>

\* avoidPrompt with a fault: the length test is missing
avoidPromptAlways(words) == AvoidLead \o join(words, AvoidSep) \o AvoidEnd

avoidPrompt(words) ==
    IF Len(words) > 0 THEN AvoidLead \o join(words, AvoidSep) \o AvoidEnd
    ELSE << >>

\* prompt with a fault: the draft is trimmed before it is quoted
promptTrimsDraft(action, tone, words, draft) ==
    TplTask \o <<action>> \o TplTone \o tonePrompt[tone]
        \o TplAction \o actionPrompt[action]
        \o TplAvoid \o avoidPrompt(words)
        \o TplDraft \o trim(draft)
        \o TplOnly \o <<action>> \o TplEnd

prompt(action, tone, words, draft) ==
    TplTask \o <<action>> \o TplTone \o tonePrompt[tone]
        \o TplAction \o actionPrompt[action]
        \o TplAvoid \o avoidPrompt(words)
        \o TplDraft \o draft
        \o TplOnly \o <<action>> \o TplEnd

(***************************************************************************)
(* What the user types and what the service answers.                       *)
(***************************************************************************)
\* values of the draft textarea: empty, whitespace only, a short draft with
\* blanks around it, and a draft into which the user pasted program text
PastedDraft == tonePrompt["fun"] \o <<"\n">> \o actionPrompt["improve"] \o <<"\n">> \o AvoidLead \o <<"o", "k">> \o AvoidEnd
Drafts == { << >>, <<" ", "\n">>, <<" ", "H", "i", " ">>, PastedDraft }

\* values of the avoid-word input field
AvoidInputs == { <<" ">>,
                 <<"P", "l", "e", "a", "s", "e">>,
                 <<"p", "l", "e", "a", "s", "e", " ">>,
                 <<" ", "J", "u", "s", "t">> }

\* response.text of a fulfilled generateContent call
ResponseTexts == { None, Some(<< >>), Some(<<"Hello team,">>) }

(***************************************************************************)
(* State.                                                                  *)
(***************************************************************************)
VARIABLES
    input,          \* useState(''): the draft
    output,         \* useState(''): the last text stored by a fulfilled call
    selectedTone,   \* useState('professional')
    isLoading,      \* useState(false): the pending flag
    copied,         \* useState(false): the "Copied!" indicator
    error,          \* useState(null): None or Some(message)
    avoidWords,     \* useState(['please'])
    newAvoidWord,   \* useState(''): the avoid-word input field
    inflight,       \* handleRefine invocations suspended at their await: the contents
                    \* sent and the action, tone, words and draft of their closure
    timers,         \* number of pending setTimeout(() => setCopied(false), 2000) callbacks;
                    \* all have the same delay, so they fire in the order they were set
    clipboard,      \* None, or Some(text last written by navigator.clipboard.writeText)
    event,          \* log: the UI event or callback that ran last
    latest          \* log: how the call that completed last ended

app == <<input, output, selectedTone, isLoading, copied, error, avoidWords, newAvoidWord>>
env == <<inflight, timers, clipboard>>
vars == <<input, output, selectedTone, isLoading, copied, error, avoidWords,
          newAvoidWord, inflight, timers, clipboard, event, latest>>

Init ==
    /\ input = << >>
    /\ output = << >>
    /\ selectedTone = "professional"
    /\ isLoading = FALSE
    /\ copied = FALSE
    /\ error = None
    /\ avoidWords = << <<"p", "l", "e", "a", "s", "e">> >>
    /\ newAvoidWord = << >>
    /\ inflight = << >>
    /\ timers = 0
    /\ clipboard = None
    /\ event = [op |-> "mount"]
    /\ latest = [outcome |-> "none"]

(***************************************************************************)
(* What is rendered.                                                       *)
(***************************************************************************)
\* Blank with a fault: the trim is forgotten
BlankWithoutTrim(s) == ~Truthy(s)

\* !input.trim()
Blank(s) == ~Truthy(trim(s))

\* ActionDisabled with a fault: the buttons forget the pending flag
ActionDisabledIgnoresLoading == Blank(input)

\* disabled={isLoading || !input.trim()} of the three action buttons
ActionDisabled == isLoading \/ Blank(input)

\* {(output || isLoading) && <section>}
SectionShown == Truthy(output) \/ isLoading

\* {output && !isLoading && <button onClick={copyToClipboard}>}
CopyShown == SectionShown /\ Truthy(output) /\ ~isLoading

\* the body of the output section: placeholder bars, the error banner or
\* the Markdown of output; nothing when the section is not rendered
Display ==
    IF ~SectionShown THEN [kind |-> "nothing"]
    ELSE IF isLoading THEN [kind |-> "loading"]
    ELSE IF error # None /\ Truthy(Get(error)) THEN [kind |-> "error", text |-> Get(error)]
    ELSE [kind |-> "text", text |-> output]

(***************************************************************************)
(* Editing.                                                                *)
(***************************************************************************)
\* setInput with a fault: the pending calls read the draft when they are
\* sent, not when they were submitted
setInputReachesPending(value) ==
    /\ input' = value
    /\ inflight' = [i \in 1..Len(inflight) |->
                       [inflight[i] EXCEPT !.contents =
                           prompt(inflight[i].action, inflight[i].tone,
                                  inflight[i].words, value)]]
    /\ UNCHANGED <<output, selectedTone, isLoading, copied, error, avoidWords,
                   newAvoidWord, timers, clipboard>>

\* onChange of the textarea
setInput(value) ==
    /\ input' = value
    /\ UNCHANGED <<output, selectedTone, isLoading, copied, error, avoidWords,
                   newAvoidWord, inflight, timers, clipboard>>

\* onClick of a tone button
setSelectedTone(tone) ==
    /\ selectedTone' = tone
    /\ UNCHANGED <<input, output, isLoading, copied, error, avoidWords,
                   newAvoidWord, inflight, timers, clipboard>>

\* onChange of the avoid-word input
setNewAvoidWord(value) ==
    /\ newAvoidWord' = value
    /\ UNCHANGED <<input, output, selectedTone, isLoading, copied, error,
                   avoidWords, inflight, timers, clipboard>>

\* addAccepts with a fault: the list is searched for the word as typed
addAcceptsCaseSensitive(typed, words) ==
    Truthy(trim(typed)) /\ ~includes(words, trim(typed))

\* the condition under which addAvoidWord adds
addAccepts(typed, words) ==
    Truthy(trim(typed)) /\ ~includes(words, toLowerCase(trim(typed)))

\* the + button, or Enter in the avoid-word input
addAvoidWord ==
    /\ IF addAccepts(newAvoidWord, avoidWords)
       THEN /\ avoidWords' = avoidWords \o <<toLowerCase(trim(newAvoidWord))>>
            /\ newAvoidWord' = << >>
       ELSE UNCHANGED <<avoidWords, newAvoidWord>>
    /\ UNCHANGED <<input, output, selectedTone, isLoading, copied, error,
                   inflight, timers, clipboard>>

\* the x button of a rendered word
removeAvoidWord(word) ==
    /\ avoidWords' = SelectSeq(avoidWords, LAMBDA w : w # word)
    /\ UNCHANGED <<input, output, selectedTone, isLoading, copied, error,
                   newAvoidWord, inflight, timers, clipboard>>

(***************************************************************************)
(* Requests.                                                               *)
(***************************************************************************)
\* handleRefine up to its await: the early return, the two setters and the
\* generateContent call with the prompt built from the state of this render
handleRefine(action) ==
    IF Blank(input)
    THEN UNCHANGED <<isLoading, error, inflight>>
    ELSE /\ isLoading' = TRUE
         /\ error' = None
         /\ inflight' = Append(inflight,
                [contents |-> prompt(action, selectedTone, avoidWords, input),
                 action |-> action, tone |-> selectedTone,
                 words |-> avoidWords, draft |-> input])

\* the user clicks an action button: a disabled button dispatches no click,
\* an enabled one runs handleRefine
clickAction(action) ==
    /\ IF ActionDisabled
       THEN UNCHANGED <<isLoading, error, inflight>>
       ELSE Len(inflight) < MaxInflight /\ handleRefine(action)
    /\ UNCHANGED <<input, output, selectedTone, copied, avoidWords, newAvoidWord,
                   timers, clipboard>>

\* textOrDefault with a fault: ?? in place of ||
textOrDefaultNullish(text) ==
    IF text # None THEN Get(text) ELSE NoResponse

\* response.text || 'No response generated.'
textOrDefault(text) ==
    IF text # None /\ Truthy(Get(text)) THEN Get(text) ELSE NoResponse

RemoveAt(q, i) == SubSeq(q, 1, i - 1) \o SubSeq(q, i + 1, Len(q))

\* fulfilled with a fault: isLoading is cleared in the catch block only
fulfilledWithoutFinally(i, text) ==
    /\ output' = textOrDefault(text)
    /\ inflight' = RemoveAt(inflight, i)
    /\ UNCHANGED <<input, selectedTone, isLoading, copied, error, avoidWords,
                   newAvoidWord, timers, clipboard>>

\* generateContent fulfils: the rest of the try block, then finally
fulfilled(i, text) ==
    /\ output' = textOrDefault(text)
    /\ isLoading' = FALSE
    /\ inflight' = RemoveAt(inflight, i)
    /\ UNCHANGED <<input, selectedTone, copied, error, avoidWords, newAvoidWord,
                   timers, clipboard>>

\* rejected with a fault: the finally block is missing
rejectedWithoutFinally(i) ==
    /\ error' = Some(Apology)
    /\ inflight' = RemoveAt(inflight, i)
    /\ UNCHANGED <<input, output, selectedTone, isLoading, copied, avoidWords,
                   newAvoidWord, timers, clipboard>>

\* generateContent rejects (or the try block throws): catch, then finally
rejected(i) ==
    /\ error' = Some(Apology)
    /\ isLoading' = FALSE
    /\ inflight' = RemoveAt(inflight, i)
    /\ UNCHANGED <<input, output, selectedTone, copied, avoidWords, newAvoidWord,
                   timers, clipboard>>

(***************************************************************************)
(* Copying.                                                                *)
(***************************************************************************)
\* the user clicks the copy button, which exists only while CopyShown
copyToClipboard ==
    /\ CopyShown
    /\ timers < MaxTimers
    /\ clipboard' = Some(output)
    /\ copied' = TRUE
    /\ timers' = timers + 1
    /\ UNCHANGED <<input, output, selectedTone, isLoading, error, avoidWords,
                   newAvoidWord, inflight>>

\* the oldest pending setTimeout callback runs: () => setCopied(false)
timeout ==
    /\ timers > 0
    /\ copied' = FALSE
    /\ timers' = timers - 1
    /\ UNCHANGED <<input, output, selectedTone, isLoading, error, avoidWords,
                   newAvoidWord, inflight, clipboard>>

(***************************************************************************)
(* The specification.  The actions above write the program's state only;   *)
(* the log is written here, beside each action.                            *)
(***************************************************************************)
Ran(op) == event' = [op |-> op] /\ UNCHANGED latest

Clicked(action) ==
    /\ event' = [op |-> "click", action |-> action, dispatched |-> ~ActionDisabled]
    /\ UNCHANGED latest

Completed(op, how) == event' = [op |-> op] /\ latest' = how

Next ==
    \/ \E value \in Drafts : setInput(value) /\ Ran("setInput")
    \/ \E tone \in Tones : setSelectedTone(tone) /\ Ran("setSelectedTone")
    \/ \E value \in AvoidInputs : setNewAvoidWord(value) /\ Ran("setNewAvoidWord")
    \/ addAvoidWord /\ Ran("addAvoidWord")
    \/ \E i \in 1..Len(avoidWords) : removeAvoidWord(avoidWords[i]) /\ Ran("removeAvoidWord")
    \/ \E action \in Actions : clickAction(action) /\ Clicked(action)
    \/ \E i \in 1..Len(inflight) : \E text \in ResponseTexts :
          fulfilled(i, text) /\ Completed("fulfilled", [outcome |-> "fulfilled", text |-> text])
    \/ \E i \in 1..Len(inflight) :
          rejected(i) /\ Completed("rejected", [outcome |-> "rejected"])
    \/ copyToClipboard /\ Ran("copyToClipboard")
    \/ timeout /\ Ran("timeout")

Spec == Init /\ [][Next]_vars

(***************************************************************************)
(* The program with part of its controls left untouched.  Next has too     *)
(* many states to enumerate: every prompt a call can carry times every     *)
(* state of the editing and copy controls, times the log.  The claims are  *)
(* checked under the specifications below    , each the same Init and the  *)
(* same actions with some controls never operated.                         *)
(***************************************************************************)
\* the avoid-word controls are never operated
NextRefine ==
    \/ \E value \in Drafts : setInput(value) /\ Ran("setInput")
    \/ \E tone \in Tones : setSelectedTone(tone) /\ Ran("setSelectedTone")
    \/ \E action \in Actions : clickAction(action) /\ Clicked(action)
    \/ \E i \in 1..Len(inflight) : \E text \in ResponseTexts :
          fulfilled(i, text) /\ Completed("fulfilled", [outcome |-> "fulfilled", text |-> text])
    \/ \E i \in 1..Len(inflight) :
          rejected(i) /\ Completed("rejected", [outcome |-> "rejected"])
    \/ copyToClipboard /\ Ran("copyToClipboard")
    \/ timeout /\ Ran("timeout")

SpecRefine == Init /\ [][NextRefine]_vars

\* SpecRefine with a service that answers every call: a call that stays
\* outstanding is eventually fulfilled or rejected
Answered ==
    \/ \E i \in 1..Len(inflight) : \E text \in ResponseTexts :
          fulfilled(i, text) /\ Completed("fulfilled", [outcome |-> "fulfilled", text |-> text])
    \/ \E i \in 1..Len(inflight) :
          rejected(i) /\ Completed("rejected", [outcome |-> "rejected"])

SpecRefineFair == SpecRefine /\ WF_vars(Answered)

\* no request is made and the copy button is never operated
NextEdit ==
    \/ \E value \in Drafts : setInput(value) /\ Ran("setInput")
    \/ \E tone \in Tones : setSelectedTone(tone) /\ Ran("setSelectedTone")
    \/ \E value \in AvoidInputs : setNewAvoidWord(value) /\ Ran("setNewAvoidWord")
    \/ addAvoidWord /\ Ran("addAvoidWord")
    \/ \E i \in 1..Len(avoidWords) : removeAvoidWord(avoidWords[i]) /\ Ran("removeAvoidWord")

SpecEdit == Init /\ [][NextEdit]_vars

\* the copy button is never operated and no log is kept
NextPrompt ==
    \/ \E value \in Drafts : setInput(value) /\ UNCHANGED <<event, latest>>
    \/ \E tone \in Tones : setSelectedTone(tone) /\ UNCHANGED <<event, latest>>
    \/ \E value \in AvoidInputs : setNewAvoidWord(value) /\ UNCHANGED <<event, latest>>
    \/ addAvoidWord /\ UNCHANGED <<event, latest>>
    \/ \E i \in 1..Len(avoidWords) : removeAvoidWord(avoidWords[i]) /\ UNCHANGED <<event, latest>>
    \/ \E action \in Actions : clickAction(action) /\ UNCHANGED <<event, latest>>
    \/ \E i \in 1..Len(inflight) : \E text \in ResponseTexts :
          fulfilled(i, text) /\ UNCHANGED <<event, latest>>
    \/ \E i \in 1..Len(inflight) : rejected(i) /\ UNCHANGED <<event, latest>>

SpecPrompt == Init /\ [][NextPrompt]_vars

(***************************************************************************)
(* Claims.                                                                 *)
(***************************************************************************)
AllWhiteSpace(s) == \A k \in 1..Len(s) : s[k] \in WhiteSpace

\* C1: at most one generateContent call is outstanding in every reachable
\* state; a click on an action button while a call is pending, the draft
\* being non-empty, starts no second call.
C1_AtMostOneInFlight == Len(inflight) <= 1

C1_Witness ==
    /\ event.op = "click"
    /\ ~event.dispatched
    /\ isLoading
    /\ ~AllWhiteSpace(input)
    /\ Len(inflight) = 1

\* C2: when a call has failed, the state after its completion holds the
\* fixed apology message as the error and the pending flag is false.
C2_FailureStoresApology ==
    event.op = "rejected" =>
        /\ error = Some(<<"The sun went behind a cloud for a moment. Please try again!">>)
        /\ isLoading = FALSE

C2_Witness == event.op = "rejected" /\ latest.outcome = "rejected" /\ inflight = << >>

\* C3: after a call has failed and until the next submit is accepted, the
\* result display shows the error banner with the fixed message, whatever
\* earlier calls returned, also when none has succeeded before.
C3_ErrorBannerShown ==
    (latest.outcome = "rejected" /\ ~isLoading) =>
        Display = [kind |-> "error", text |-> Apology]

\* C4: once a call has completed, the stored result, the text shown and the
\* text the copy button reaches derive from that latest call only: after a
\* success they are its text, after a failure no earlier text is stored,
\* shown or offered for copying.
C4_ResultFromLatestOnly ==
    (latest.outcome # "none" /\ ~isLoading) =>
        /\ latest.outcome = "fulfilled" =>
              /\ output = textOrDefault(latest.text)
              /\ Display = [kind |-> "text", text |-> output]
        /\ latest.outcome = "rejected" =>
              /\ output = << >>
              /\ Display.kind # "text"
              /\ ~CopyShown

\* C5: after a call has succeeded the stored result is the returned text
\* itself when that text is non-empty, the fixed placeholder (never '') when
\* it is empty or absent, and no error is set.
C5_SuccessStoresText ==
    event.op = "fulfilled" =>
        /\ error = None
        /\ output # << >>
        /\ IF latest.text = None \/ latest.text = Some(<< >>)
           THEN output = <<"No response generated.">>
           ELSE output = Get(latest.text)

C5_Witness ==
    /\ event.op = "fulfilled"
    /\ latest.text = Some(<< >>)
    /\ output = NoResponse

\* C6: a click on an action button while the draft is empty or whitespace
\* only changes nothing: no call is started and draft, tone, avoid words,
\* pending flag, result and error keep their values.
C6_BlankSubmitNoOp ==
    [][(event'.op = "click" /\ AllWhiteSpace(input)) => UNCHANGED <<app, env>>]_vars

C6_Witness ==
    /\ event.op = "click"
    /\ ~event.dispatched
    /\ input = <<" ", "\n">>
    /\ ~isLoading
    /\ inflight = << >>

\* C7: after any sequence of addAvoidWord and removeAvoidWord from the
\* default list, every entry is non-empty, has no blank at either end and
\* no upper-case letter, and no entry occurs twice; addAvoidWord on an input
\* that is blank leaves the list as it is, and so does 'please ' when the
\* list is ['please'].
NoUpperCase(w) ==
    \A k \in 1..Len(w) : \A u \in 1..Len(UpperCase) : w[k] # UpperCase[u]

Normalised(w) ==
    /\ w # << >>
    /\ w[1] \notin WhiteSpace
    /\ w[Len(w)] \notin WhiteSpace
    /\ NoUpperCase(w)

WordsNormalised(words) ==
    /\ \A i \in 1..Len(words) : Normalised(words[i])
    /\ \A i, j \in 1..Len(words) : i # j => words[i] # words[j]

C7_AvoidWordsNormalised ==
    [][/\ WordsNormalised(avoidWords')
       /\ (event'.op = "addAvoidWord" /\ AllWhiteSpace(newAvoidWord))
             => avoidWords' = avoidWords
       /\ (/\ event'.op = "addAvoidWord"
           /\ newAvoidWord = <<"p", "l", "e", "a", "s", "e", " ">>
           /\ avoidWords = << <<"p", "l", "e", "a", "s", "e">> >>)
             => avoidWords' = avoidWords]_vars

C7_Witness ==
    /\ event.op = "addAvoidWord"
    /\ newAvoidWord = <<"p", "l", "e", "a", "s", "e", " ">>
    /\ avoidWords = << <<"p", "l", "e", "a", "s", "e">> >>

(***************************************************************************)
(* Reading a prompt back: the draft is what stands between the first       *)
(* opening stretch TplDraft and the last closing stretch TplOnly, the      *)
(* frame is the prompt without it, and the constraint line is what stands  *)
(* in the frame between TplAvoid and TplDraft.                             *)
(***************************************************************************)
Contains(s, sub) ==
    \E k \in 0..(Len(s) - Len(sub)) : SubSeq(s, k + 1, k + Len(sub)) = sub

Occurrences(s, piece) == Cardinality({k \in 1..Len(s) : s[k] = piece})

FirstIndex(s, piece) ==
    CHOOSE k \in 1..Len(s) : s[k] = piece /\ \A j \in 1..(k - 1) : s[j] # piece

LastIndex(s, piece) ==
    CHOOSE k \in 1..Len(s) : s[k] = piece /\ \A j \in (k + 1)..Len(s) : s[j] # piece

WellFramed(c) ==
    /\ Occurrences(c, TplAvoid[1]) > 0
    /\ Occurrences(c, TplDraft[1]) > 0
    /\ Occurrences(c, TplOnly[1]) > 0
    /\ FirstIndex(c, TplAvoid[1]) < FirstIndex(c, TplDraft[1])
    /\ FirstIndex(c, TplDraft[1]) < LastIndex(c, TplOnly[1])

DraftSlot(c) ==
    SubSeq(c, FirstIndex(c, TplDraft[1]) + 1, LastIndex(c, TplOnly[1]) - 1)

Frame(c) ==
    SubSeq(c, 1, FirstIndex(c, TplDraft[1])) \o SubSeq(c, LastIndex(c, TplOnly[1]), Len(c))

AvoidLine(c) ==
    SubSeq(c, FirstIndex(c, TplAvoid[1]) + 1, FirstIndex(c, TplDraft[1]) - 1)

RECURSIVE split(_, _)
split(s, sep) ==
    IF Occurrences(s, sep) = 0 THEN <<s>>
    ELSE <<SubSeq(s, 1, FirstIndex(s, sep) - 1)>>
            \o split(SubSeq(s, FirstIndex(s, sep) + 1, Len(s)), sep)

\* the line is the lead, the members of words in their order, each written
\* once and separated by ', ', and the full stop
ListsMembers(line, words) ==
    /\ Len(line) >= 2
    /\ line[1] = AvoidLead[1]
    /\ line[Len(line)] = AvoidEnd[1]
    /\ split(SubSeq(line, 2, Len(line) - 1), AvoidSep[1]) = words

\* C8 as stated: the prompt of an accepted submit holds the fragment of the
\* tone and of the action of that submit, the fragment of no other tone or
\* action, and the draft as entered.
C8_FragmentsInPrompt ==
    \A i \in 1..Len(inflight) :
        LET r == inflight[i] IN
        /\ Occurrences(r.contents, tonePrompt[r.tone][1]) > 0
        /\ Occurrences(r.contents, actionPrompt[r.action][1]) > 0
        /\ \A t \in Tones \ {r.tone} : Occurrences(r.contents, tonePrompt[t][1]) = 0
        /\ \A a \in Actions \ {r.action} : Occurrences(r.contents, actionPrompt[a][1]) = 0
        /\ Contains(r.contents, r.draft)

\* C8 amended: the prompt of an accepted submit holds, outside the quoted
\* draft, the fragment of the tone and of the action of that submit and the
\* fragment of no other tone or action, and between the quote marks the
\* draft as entered, untrimmed.
C8_FragmentsInFrame ==
    \A i \in 1..Len(inflight) :
        LET r == inflight[i] IN
        /\ WellFramed(r.contents)
        /\ Occurrences(Frame(r.contents), tonePrompt[r.tone][1]) > 0
        /\ Occurrences(Frame(r.contents), actionPrompt[r.action][1]) > 0
        /\ \A t \in Tones \ {r.tone} :
              Occurrences(Frame(r.contents), tonePrompt[t][1]) = 0
        /\ \A a \in Actions \ {r.action} :
              Occurrences(Frame(r.contents), actionPrompt[a][1]) = 0
        /\ DraftSlot(r.contents) = r.draft

C8_Witness ==
    \E i \in 1..Len(inflight) :
        /\ inflight[i].draft = <<" ", "H", "i", " ">>
        /\ inflight[i].tone = "fun"
        /\ inflight[i].action = "improve"
        /\ selectedTone = "casual"

\* C9 as stated: the prompt of an accepted submit holds the 'Do NOT use'
\* line exactly when the avoid-word list of that submit is non-empty, and
\* the line then lists every member once.
C9_ConstraintLineInPrompt ==
    \A i \in 1..Len(inflight) :
        LET r == inflight[i] IN
        /\ Occurrences(r.contents, AvoidLead[1]) > 0 <=> Len(r.words) > 0
        /\ Len(r.words) > 0 =>
              WellFramed(r.contents) /\ ListsMembers(AvoidLine(r.contents), r.words)

\* C9 amended: the prompt of an accepted submit holds, outside the quoted
\* draft, the 'Do NOT use' line exactly when the avoid-word list of that
\* submit is non-empty, and the line then lists every member once, the
\* members in list order and separated by ', '.
C9_ConstraintLineInFrame ==
    \A i \in 1..Len(inflight) :
        LET r == inflight[i] IN
        /\ WellFramed(r.contents)
        /\ Occurrences(Frame(r.contents), AvoidLead[1]) > 0 <=> Len(r.words) > 0
        /\ Len(r.words) > 0 => ListsMembers(AvoidLine(r.contents), r.words)
        /\ Len(r.words) = 0 => AvoidLine(r.contents) = << >>

C9_Witness ==
    \E i \in 1..Len(inflight) :
        /\ Len(inflight[i].words) = 2
        /\ inflight[i].draft = PastedDraft

\* C10: each click on the copy button writes the current result text to the
\* clipboard and shows the "copied" indicator for the 2-second window that
\* click started, also when an earlier window has not elapsed: while the
\* timer of the latest click is pending the indicator is shown, and it is
\* off once no timer is pending.
C10_CopiedForWindow ==
    /\ event.op = "copyToClipboard" => clipboard = Some(output) /\ copied
    /\ timers > 0 => copied
    /\ timers = 0 => ~copied


\* C11: the pending flag is true exactly while a call is outstanding; a
\* click that is dispatched sets the flag and starts exactly one call, every
\* fulfilment and rejection clears the flag, no step other than a dispatched
\* click starts a call, and with a service that answers every call a set
\* flag is eventually cleared.
C11_PendingWhileOutstanding ==
    /\ [](isLoading <=> Len(inflight) > 0)
    /\ [][/\ (event'.op = "click" /\ event'.dispatched) =>
                isLoading' /\ Len(inflight') = Len(inflight) + 1
          /\ event'.op \in {"fulfilled", "rejected"} =>
                ~isLoading' /\ Len(inflight') = Len(inflight) - 1
          /\ Len(inflight') > Len(inflight) =>
                event'.op = "click" /\ event'.dispatched]_vars
    /\ isLoading ~> ~isLoading

C11_Witness ==
    /\ event.op = "fulfilled"
    /\ latest = [outcome |-> "fulfilled", text |-> Some(<<"Hello team,">>)]
    /\ ~isLoading
    /\ inflight = << >>

\* C12: while a call is pending the draft, the tone and the avoid-word
\* controls still accept edits, which take effect at once; such an edit
\* starts no call and leaves the pending flag, the result, the error and the
\* prompt of the pending call as they are; that prompt was built from the
\* draft, tone and avoid words of the submit; and the completion of the call
\* clears the flag and writes its result or the error.
Edited ==
    \/ input' # input
    \/ selectedTone' # selectedTone
    \/ avoidWords' # avoidWords
    \/ newAvoidWord' # newAvoidWord

EditsAccepted ==
    /\ \A value \in Drafts :
          ENABLED (setInput(value) /\ input' = value /\ UNCHANGED <<event, latest>>)
    /\ \A tone \in Tones :
          ENABLED (setSelectedTone(tone) /\ selectedTone' = tone /\ UNCHANGED <<event, latest>>)
    /\ \A i \in 1..Len(avoidWords) :
          ENABLED (/\ removeAvoidWord(avoidWords[i])
                   /\ Len(avoidWords') < Len(avoidWords)
                   /\ UNCHANGED <<event, latest>>)

C12_EditsWhilePending ==
    [][/\ isLoading => EditsAccepted
       /\ (isLoading /\ Edited) => UNCHANGED <<isLoading, output, error, inflight>>
       /\ Len(inflight') > Len(inflight) =>
             LET r == inflight'[Len(inflight')] IN
             /\ r.draft = input /\ r.tone = selectedTone /\ r.words = avoidWords
             /\ WellFramed(r.contents)
             /\ DraftSlot(r.contents) = input
             /\ Occurrences(Frame(r.contents), tonePrompt[selectedTone][1]) = 1
             /\ (avoidWords # << >> => ListsMembers(AvoidLine(r.contents), avoidWords))
       /\ Len(inflight') < Len(inflight) =>
             /\ ~isLoading'
             /\ \/ error' = Some(Apology) /\ output' = output
                \/ error' = None /\ output' \in {NoResponse, <<"Hello team,">>}]_vars

C12_Witness ==
    /\ isLoading
    /\ Len(inflight) = 1
    /\ input # inflight[1].draft
    /\ selectedTone # inflight[1].tone
    /\ avoidWords # inflight[1].words
    /\ DraftSlot(inflight[1].contents) = inflight[1].draft

====
